---- MODULE Spec2Model ----
(***************************************************************************)
(* DesktopNotificationService (chrome/browser/notifications): the persisted *)
(* notification permissions of a profile, the NotificationsPrefsCache that *)
(* mirrors them on the IO thread, and the permission-request infobar.       *)
(*                                                                         *)
(* The UI thread runs the service's methods and the infobar delegate's      *)
(* handlers, one at a time.  Every ChromeThread::PostTask(IO, ...) appends  *)
(* a task to io_tasks; the IO thread runs the tasks in the order posted.    *)
(***************************************************************************)
EXTENDS Integers, Sequences, FiniteSets, Bags, TLC

\* ------------------------------------------------------------------ bounds
\* Calls of the service's public methods in one run (the infobar's handlers
\* and the IO thread's tasks follow from them and are not counted).
MaxOps == 2

\* ------------------------------------------------------------ value domains
Origins == {"a", "b"}
\* The RenderViews that ask for permission: process_id, route_id and the
\* TabContents the view belongs to, NULL for a view outside any tab.
RenderViews ==
    {[process_id |-> 1, route_id |-> 2, tab |-> "tab"],
     [process_id |-> 2, route_id |-> 1, tab |-> "NULL"]}
ContentSettings == {"DEFAULT", "ALLOW", "BLOCK", "ASK"}

kDefaultSetting == "ASK"

kDesktopNotificationDefaultContentSetting == "default_content_setting"
kDesktopNotificationAllowedOrigins == "allowed_origins"
kDesktopNotificationDeniedOrigins == "denied_origins"

ObservedPrefs ==
    {kDesktopNotificationDefaultContentSetting,
     kDesktopNotificationAllowedOrigins,
     kDesktopNotificationDeniedOrigins}

VARIABLES
    otr,                       \* profile_->IsOffTheRecord()
    allowed_sites,             \* pref kDesktopNotificationAllowedOrigins
    denied_sites,              \* pref kDesktopNotificationDeniedOrigins
    default_content_setting,   \* pref kDesktopNotificationDefaultContentSetting
    observers,                 \* prefs this service is registered to observe
    prefs_cache,               \* NotificationsPrefsCache
    io_tasks,                  \* tasks posted to the IO thread, oldest first
    infobars,                  \* live NotificationPermissionInfoBarDelegates
    allowed_changed,           \* locals of the last PersistPermissionChange
    denied_changed,
    ops,                       \* public-method calls made so far
    next_context,              \* callback_context of the next request
    requests,                  \* history: whom every RequestPermission must answer
    posted,                    \* history: bag of callback tasks ever posted
    last_decision,             \* history: last change of each origin's lists
    undelivered,               \* history: tasks up to that change still queued
    recorded_allowed,          \* history: origins the allowed pref ever held
    applied_allowed,           \* history: origins an allow update gave the cache
    last_persist,              \* history: the last pref-list write
    params,                    \* ViewHostMsg_ShowNotification_Params at hand
    contents,                  \* contents of the Notification last shown
    updates_due,               \* history: updates decided on, not yet applied
    misapplied                 \* history: the cache got an update not due next

vars ==
    <<otr, allowed_sites, denied_sites, default_content_setting, observers,
      prefs_cache, io_tasks, infobars, allowed_changed, denied_changed, ops,
      next_context, requests, posted, last_decision, undelivered,
      recorded_allowed, applied_allowed, last_persist, params, contents,
      updates_due, misapplied>>

\* ------------------------------------------------------------------ helpers
Range(s) == {s[i] : i \in DOMAIN s}

NoDuplicates(s) == \A i, j \in DOMAIN s : s[i] = s[j] => i = j

\* Lists the service itself can have written: no origin twice, none in both.
OriginLists ==
    {s \in UNION {[1..n -> Origins] : n \in 0..Cardinality(Origins)} :
        NoDuplicates(s)}

\* ListValue::Remove(value): erases the first equal element and returns its
\* (zero-based) index, or -1 when there is none.
ListRemove(list, value) ==
    IF value \in Range(list)
    THEN LET i == CHOOSE k \in DOMAIN list :
                    /\ list[k] = value
                    /\ \A j \in 1..(k - 1) : list[j] # value
         IN  [list |-> SubSeq(list, 1, i - 1) \o SubSeq(list, i + 1, Len(list)),
              index |-> i - 1]
    ELSE [list |-> list, index |-> -1]

\* ListValue::AppendIfNotPresent(value): appends unless an equal element is
\* there, and says whether it appended.
ListAppendIfNotPresent(list, value) ==
    IF value \in Range(list)
    THEN [list |-> list, appended |-> FALSE]
    ELSE [list |-> Append(list, value), appended |-> TRUE]

\* ------------------------------------------------------ NotificationsPrefsCache
SetCacheDefaultContentSetting(cache, setting) ==
    [cache EXCEPT !.default_content_setting = setting]

SetCacheAllowedOrigins(cache, origins) ==
    [cache EXCEPT !.allowed_origins = Range(origins)]

SetCacheDeniedOrigins(cache, origins) ==
    [cache EXCEPT !.denied_origins = Range(origins)]

CacheAllowedOrigin(cache, origin) ==
    [cache EXCEPT !.allowed_origins = @ \cup {origin},
                  !.denied_origins = @ \ {origin}]

CacheDeniedOrigin(cache, origin) ==
    [cache EXCEPT !.denied_origins = @ \cup {origin},
                  !.allowed_origins = @ \ {origin}]

\* The cache's answer for an origin: its own sets first, then its default,
\* the unset value meaning ask.
HasPermission(cache, origin) ==
    IF origin \in cache.allowed_origins THEN "ALLOW"
    ELSE IF origin \in cache.denied_origins THEN "BLOCK"
    ELSE IF cache.default_content_setting = "DEFAULT" THEN "ASK"
    ELSE cache.default_content_setting

\* ------------------------------------------------------------- construction
GetAllowedOrigins(allowed) == allowed

GetBlockedOrigins(denied) == denied

\* Variant: the prefs are loaded whatever the profile.
InitPrefs_AnyProfile(off_the_record, allowed, denied, setting) ==
    [default_content_setting |-> setting,
     allowed_origins |-> Range(allowed),
     denied_origins |-> Range(denied),
     is_initialized |-> TRUE]

\* InitPrefs: the cache as the constructor fills it.
InitPrefs(off_the_record, allowed, denied, setting) ==
    LET loaded_setting == IF off_the_record THEN "DEFAULT" ELSE setting
        allowed_origins ==
            IF off_the_record THEN <<>> ELSE GetAllowedOrigins(allowed)
        denied_origins ==
            IF off_the_record THEN <<>> ELSE GetBlockedOrigins(denied)
        empty == [default_content_setting |-> "DEFAULT",
                  allowed_origins |-> {},
                  denied_origins |-> {},
                  is_initialized |-> FALSE]
        c1 == SetCacheDefaultContentSetting(empty, loaded_setting)
        c2 == SetCacheAllowedOrigins(c1, allowed_origins)
        c3 == SetCacheDeniedOrigins(c2, denied_origins)
    IN  [c3 EXCEPT !.is_initialized = TRUE]

StartObserving(off_the_record, obs) ==
    IF off_the_record THEN obs ELSE obs \cup ObservedPrefs

\* Variant: the observer stays registered.
StopObserving_Never(off_the_record, obs) == obs

StopObserving(off_the_record, obs) ==
    IF off_the_record THEN obs ELSE obs \ ObservedPrefs

NoPersist == [persist |-> FALSE]

\* No notification has been asked for, none shown.
NoParams ==
    [is_html |-> TRUE, icon_url |-> "", title |-> "", body |-> "",
     direction |-> "Default"]

NoContents == [resource |-> "", subst |-> <<>>]

\* The service as its constructor leaves it, over any stored prefs.
Constructed ==
    /\ otr \in BOOLEAN
    /\ allowed_sites \in OriginLists
    /\ denied_sites \in OriginLists
    /\ Range(allowed_sites) \cap Range(denied_sites) = {}
    /\ default_content_setting \in ContentSettings
    /\ observers = StartObserving(otr, {})
    /\ prefs_cache =
           InitPrefs(otr, allowed_sites, denied_sites, default_content_setting)
    /\ io_tasks = <<>>
    /\ infobars = {}
    /\ allowed_changed = FALSE
    /\ denied_changed = FALSE
    /\ ops = 0
    /\ next_context = 1
    /\ requests = {}
    /\ posted = EmptyBag
    /\ last_decision = [o \in Origins |-> "none"]
    /\ undelivered = [o \in Origins |-> 0]
    /\ recorded_allowed = Range(allowed_sites)
    /\ applied_allowed = prefs_cache.allowed_origins
    /\ last_persist = NoPersist
    /\ updates_due = <<>>
    /\ misapplied = FALSE

Init ==
    /\ Constructed
    /\ params = NoParams
    /\ contents = NoContents

\* ------------------------------------------------------------ pref observer
\* Variant: a change of either origin list is not passed on.
Observe_DefaultSettingOnly(name, allowed, denied, setting) ==
    IF name = kDesktopNotificationDefaultContentSetting
    THEN <<[task |-> "SetCacheDefaultContentSetting", setting |-> setting]>>
    ELSE <<>>

\* Variant: a list change is passed on as an empty list.
Observe_EmptyLists(name, allowed, denied, setting) ==
    IF name = kDesktopNotificationAllowedOrigins
    THEN <<[task |-> "SetCacheAllowedOrigins", origins |-> <<>>]>>
    ELSE IF name = kDesktopNotificationDeniedOrigins
    THEN <<[task |-> "SetCacheDeniedOrigins", origins |-> <<>>]>>
    ELSE IF name = kDesktopNotificationDefaultContentSetting
    THEN <<[task |-> "SetCacheDefaultContentSetting", setting |-> setting]>>
    ELSE <<>>

\* Observe: the task the service posts when told that pref `name` changed,
\* reading the prefs as they are at that moment.
Observe(name, allowed, denied, setting) ==
    IF name = kDesktopNotificationAllowedOrigins
    THEN <<[task |-> "SetCacheAllowedOrigins",
            origins |-> GetAllowedOrigins(allowed)]>>
    ELSE IF name = kDesktopNotificationDeniedOrigins
    THEN <<[task |-> "SetCacheDeniedOrigins",
            origins |-> GetBlockedOrigins(denied)]>>
    ELSE IF name = kDesktopNotificationDefaultContentSetting
    THEN <<[task |-> "SetCacheDefaultContentSetting", setting |-> setting]>>
    ELSE <<>>

\* PrefService::FireObservers(name): calls Observe of every registered
\* observer of that pref, synchronously.
FireObservers(name, obs, allowed, denied, setting) ==
    IF name \in obs THEN Observe(name, allowed, denied, setting) ELSE <<>>

\* ------------------------------------------------------------ the pref store
\* Variant: the off-the-record check is missing.
PersistSkipped_Never == FALSE

\* "Don't persist changes when off the record."
PersistSkipped == otr

\* Variant: the origin is left in the opposite list.
PersistRemoved_Skipped(origin, is_allowed) ==
    [list |-> IF is_allowed THEN denied_sites ELSE allowed_sites, index |-> -1]

\* Variant: the opposite list is emptied.
PersistRemoved_All(origin, is_allowed) ==
    [list |-> <<>>,
     index |-> IF (IF is_allowed THEN denied_sites ELSE allowed_sites) = <<>>
               THEN -1 ELSE 0]

\* "Remove from one list": the ListValue::Remove of PersistPermissionChange.
PersistRemoved(origin, is_allowed) ==
    ListRemove(IF is_allowed THEN denied_sites ELSE allowed_sites, origin)

\* Variant: plain Append, present or not.
PersistAdded_Always(origin, is_allowed) ==
    [list |-> Append(IF is_allowed THEN allowed_sites ELSE denied_sites,
                     origin),
     appended |-> TRUE]

\* "and add to the other": its ListValue::AppendIfNotPresent.
PersistAdded(origin, is_allowed) ==
    ListAppendIfNotPresent(IF is_allowed THEN allowed_sites ELSE denied_sites,
                           origin)

\* PersistPermissionChange(origin, is_allowed) from the current state: the
\* two lists and the two locals after the call, the observers registered when
\* it returns, and the tasks the pref notifications posted meanwhile.
PersistPermissionChange(origin, is_allowed) ==
    IF PersistSkipped
    THEN [allowed |-> allowed_sites, denied |-> denied_sites,
          allowed_changed |-> allowed_changed,
          denied_changed |-> denied_changed,
          observers |-> observers, tasks |-> <<>>]
    ELSE
    LET stopped == StopObserving(otr, observers)
        removed == PersistRemoved(origin, is_allowed)
        added == PersistAdded(origin, is_allowed)
        new_allowed == IF is_allowed THEN added.list ELSE removed.list
        new_denied == IF is_allowed THEN removed.list ELSE added.list
        a_changed == IF is_allowed THEN added.appended ELSE removed.index # -1
        d_changed == IF is_allowed THEN removed.index # -1 ELSE added.appended
        update_allowed ==
            IF a_changed
            THEN FireObservers(kDesktopNotificationAllowedOrigins, stopped,
                               new_allowed, new_denied,
                               default_content_setting)
            ELSE <<>>
        update_denied ==
            IF d_changed
            THEN FireObservers(kDesktopNotificationDeniedOrigins, stopped,
                               new_allowed, new_denied,
                               default_content_setting)
            ELSE <<>>
    IN  [allowed |-> new_allowed, denied |-> new_denied,
         allowed_changed |-> a_changed, denied_changed |-> d_changed,
         observers |-> StartObserving(otr, stopped),
         tasks |-> update_allowed \o update_denied]

GetDefaultContentSetting ==
    IF default_content_setting = "DEFAULT" THEN kDefaultSetting
    ELSE default_content_setting

\* Variant: the lists are consulted whatever the profile.
GetContentSetting_AnyProfile(origin) ==
    IF origin \in Range(GetAllowedOrigins(allowed_sites)) THEN "ALLOW"
    ELSE IF origin \in Range(GetBlockedOrigins(denied_sites)) THEN "BLOCK"
    ELSE GetDefaultContentSetting

GetContentSetting(origin) ==
    IF otr THEN kDefaultSetting
    ELSE IF origin \in Range(GetAllowedOrigins(allowed_sites)) THEN "ALLOW"
    ELSE IF origin \in Range(GetBlockedOrigins(denied_sites)) THEN "BLOCK"
    ELSE GetDefaultContentSetting

\* Variant: GrantPermission schedules the deny update.
GrantTask_Denied(origin) == [task |-> "CacheDeniedOrigin", origin |-> origin]

\* The cache update GrantPermission schedules on the IO thread.
GrantTask(origin) == [task |-> "CacheAllowedOrigin", origin |-> origin]

\* Variant: DenyPermission schedules the allow update.
DenyTask_Allowed(origin) == [task |-> "CacheAllowedOrigin", origin |-> origin]

\* The cache update DenyPermission schedules on the IO thread.
DenyTask(origin) == [task |-> "CacheDeniedOrigin", origin |-> origin]

\* NotificationPermissionCallbackTask(process_id, route_id, request_id).
CallbackTask(process_id, route_id, request_id) ==
    [task |-> "NotificationPermissionCallbackTask",
     process_id |-> process_id, route_id |-> route_id,
     request_id |-> request_id]

\* ------------------------------------------------------------------ history
\* Origins whose last list change is now `kind`, with everything queued so
\* far still to be delivered.
NoteDecision(changed, kind) ==
    /\ last_decision' =
           [o \in Origins |-> IF o \in changed THEN kind ELSE last_decision[o]]
    /\ undelivered' =
           [o \in Origins |->
               IF o \in changed THEN Len(io_tasks') ELSE undelivered[o]]

NoteLists(new_allowed) ==
    recorded_allowed' = recorded_allowed \cup Range(new_allowed)

NotePersist(origin, is_allowed) ==
    last_persist' =
        [persist |-> TRUE, origin |-> origin, is_allowed |-> is_allowed,
         repeated |-> /\ last_persist.persist
                      /\ last_persist.origin = origin
                      /\ last_persist.is_allowed = is_allowed]

\* The single-origin cache update a decision calls for.
NoteUpdateDue(origin, is_allowed) ==
    updates_due' =
        Append(updates_due,
               [task |-> IF is_allowed THEN "CacheAllowedOrigin"
                         ELSE "CacheDeniedOrigin",
                origin |-> origin])

\* The cache has been given a single-origin update: the oldest one due, or
\* one that was not due next.
NoteUpdateApplied(task) ==
    IF updates_due # <<>> /\ Head(updates_due) = task
    THEN /\ updates_due' = Tail(updates_due)
         /\ UNCHANGED misapplied
    ELSE /\ misapplied' = TRUE
         /\ UNCHANGED updates_due

\* ------------------------------------------------------ UI thread: decisions
\* A decision: the pref write, then the single-origin cache update.
Decision(origin, is_allowed, task) ==
    LET p == PersistPermissionChange(origin, is_allowed) IN
    /\ allowed_sites' = p.allowed
    /\ denied_sites' = p.denied
    /\ allowed_changed' = p.allowed_changed
    /\ denied_changed' = p.denied_changed
    /\ observers' = p.observers
    /\ io_tasks' = (io_tasks \o p.tasks) \o <<task>>
    /\ NoteDecision({origin}, IF is_allowed THEN "grant" ELSE "deny")
    /\ NoteLists(p.allowed)
    /\ NotePersist(origin, is_allowed)
    /\ NoteUpdateDue(origin, is_allowed)
    /\ UNCHANGED <<params, contents, misapplied>>
    /\ UNCHANGED <<otr, default_content_setting, prefs_cache, next_context,
                   requests, posted, applied_allowed>>

GrantPermission(origin) == Decision(origin, TRUE, GrantTask(origin))

DenyPermission(origin) == Decision(origin, FALSE, DenyTask(origin))

CallGrantPermission(origin) ==
    /\ ops < MaxOps
    /\ ops' = ops + 1
    /\ GrantPermission(origin)
    /\ UNCHANGED infobars

CallDenyPermission(origin) ==
    /\ ops < MaxOps
    /\ ops' = ops + 1
    /\ DenyPermission(origin)
    /\ UNCHANGED infobars

\* --------------------------------------------------- UI thread: list resets
\* ResetAllowedOrigin / ResetBlockedOrigin: the list with the origin erased
\* (unchanged when it is not there: only a DCHECK objects), then the
\* ScopedPrefUpdate's notification.  Where DCHECKs are compiled in, the call
\* for an absent origin ends the process at the DCHECK, before any write: its
\* behaviours are those that stop in the state before the call.
ResetAllowedOrigin(origin) ==
    LET new_allowed == ListRemove(allowed_sites, origin).list IN
    /\ ops < MaxOps
    /\ ops' = ops + 1
    /\ IF otr
       THEN /\ UNCHANGED <<allowed_sites, io_tasks, last_persist>>
            /\ NoteDecision({}, "reset")
       ELSE /\ allowed_sites' = new_allowed
            /\ io_tasks' = io_tasks \o
                   FireObservers(kDesktopNotificationAllowedOrigins, observers,
                                 new_allowed, denied_sites,
                                 default_content_setting)
            /\ NoteDecision({origin} \cap Range(allowed_sites), "reset")
            /\ last_persist' = NoPersist
    /\ UNCHANGED <<params, contents, updates_due, misapplied>>
    /\ UNCHANGED <<recorded_allowed, otr, denied_sites, default_content_setting, observers,
                   prefs_cache, infobars, allowed_changed, denied_changed,
                   next_context, requests, posted, applied_allowed>>

ResetBlockedOrigin(origin) ==
    LET new_denied == ListRemove(denied_sites, origin).list IN
    /\ ops < MaxOps
    /\ ops' = ops + 1
    /\ IF otr
       THEN /\ UNCHANGED <<denied_sites, io_tasks, last_persist>>
            /\ NoteDecision({}, "reset")
       ELSE /\ denied_sites' = new_denied
            /\ io_tasks' = io_tasks \o
                   FireObservers(kDesktopNotificationDeniedOrigins, observers,
                                 allowed_sites, new_denied,
                                 default_content_setting)
            /\ NoteDecision({origin} \cap Range(denied_sites), "reset")
            /\ last_persist' = NoPersist
    /\ UNCHANGED <<params, contents, updates_due, misapplied>>
    /\ UNCHANGED <<recorded_allowed, otr, allowed_sites, default_content_setting, observers,
                   prefs_cache, infobars, allowed_changed, denied_changed,
                   next_context, requests, posted, applied_allowed>>

\* PrefService::ClearPref(name) notifies the observers when the pref held a
\* user value; an empty list may or may not be one.
ClearPrefNotifies(list) == IF list = <<>> THEN BOOLEAN ELSE {TRUE}

\* Variant: only the allowed list is cleared.
ResetAllOriginsCleared_AllowedOnly == {kDesktopNotificationAllowedOrigins}

\* The prefs ResetAllOrigins calls ClearPref on.
ResetAllOriginsCleared ==
    {kDesktopNotificationAllowedOrigins, kDesktopNotificationDeniedOrigins}

\* ResetAllOrigins: ClearPref of the allowed list, then of the denied list,
\* whatever the profile.
ResetAllOrigins ==
    /\ ops < MaxOps
    /\ ops' = ops + 1
    /\ allowed_sites' =
           IF kDesktopNotificationAllowedOrigins \in ResetAllOriginsCleared
           THEN <<>> ELSE allowed_sites
    /\ denied_sites' =
           IF kDesktopNotificationDeniedOrigins \in ResetAllOriginsCleared
           THEN <<>> ELSE denied_sites
    /\ \E notify_allowed \in ClearPrefNotifies(allowed_sites),
          notify_denied \in ClearPrefNotifies(denied_sites) :
          io_tasks' =
              (io_tasks \o
               (IF notify_allowed
                THEN FireObservers(kDesktopNotificationAllowedOrigins,
                                   observers, <<>>, denied_sites,
                                   default_content_setting)
                ELSE <<>>)) \o
              (IF notify_denied
               THEN FireObservers(kDesktopNotificationDeniedOrigins,
                                  observers, <<>>, <<>>,
                                  default_content_setting)
               ELSE <<>>)
    /\ NoteDecision(IF otr THEN {}
                    ELSE Range(allowed_sites) \cup Range(denied_sites),
                    "reset")
    /\ UNCHANGED recorded_allowed
    /\ last_persist' = NoPersist
    /\ UNCHANGED <<params, contents, updates_due, misapplied>>
    /\ UNCHANGED <<otr, default_content_setting, observers, prefs_cache,
                   infobars, allowed_changed, denied_changed, next_context,
                   requests, posted, applied_allowed>>

\* Variant: the setting is stored as given.
DefaultSettingToStore_AsGiven(setting) == setting

\* The value SetDefaultContentSetting hands to SetInteger.
DefaultSettingToStore(setting) ==
    IF setting = "DEFAULT" THEN kDefaultSetting ELSE setting

\* SetDefaultContentSetting: PrefService::SetInteger, which notifies the
\* observers when the stored value changes.
SetDefaultContentSetting(setting) ==
    LET value == DefaultSettingToStore(setting) IN
    /\ ops < MaxOps
    /\ ops' = ops + 1
    /\ default_content_setting' = value
    /\ io_tasks' = io_tasks \o
           (IF value # default_content_setting
            THEN FireObservers(kDesktopNotificationDefaultContentSetting,
                               observers, allowed_sites, denied_sites, value)
            ELSE <<>>)
    /\ UNCHANGED <<params, contents, updates_due, misapplied>>
    /\ UNCHANGED <<otr, allowed_sites, denied_sites, observers, prefs_cache,
                   infobars, allowed_changed, denied_changed, next_context,
                   requests, posted, last_decision, undelivered,
                   recorded_allowed, applied_allowed, last_persist>>

\* ------------------------------------------- UI thread: permission requests
NotePosted(task) == posted' = posted (+) SetToBag({task})

\* What RequestPermission does with a request: nothing, an infobar, or the
\* callback at once.
RequestOutcome(setting, tab) ==
    IF tab = "NULL" THEN "return"
    ELSE IF setting = "ASK" THEN "infobar"
    ELSE "callback"

RequestPermission(origin, process_id, route_id, callback_context, tab) ==
    LET outcome == RequestOutcome(GetContentSetting(origin), tab) IN
    /\ callback_context = next_context
    /\ ops < MaxOps
    /\ ops' = ops + 1
    /\ next_context' = next_context + 1
    /\ requests' = requests \cup
           {CallbackTask(process_id, route_id, callback_context)}
    /\ infobars' =
           IF outcome = "infobar"
           THEN infobars \cup
                    {[origin |-> origin, process_id |-> process_id,
                      route_id |-> route_id,
                      callback_context |-> callback_context,
                      action_taken |-> FALSE]}
           ELSE infobars
    /\ IF outcome = "callback"
       THEN /\ io_tasks' = Append(io_tasks,
                    CallbackTask(process_id, route_id, callback_context))
            /\ NotePosted(CallbackTask(process_id, route_id, callback_context))
       ELSE UNCHANGED <<io_tasks, posted>>
    /\ UNCHANGED <<params, contents, updates_due, misapplied>>
    /\ UNCHANGED <<otr, allowed_sites, denied_sites, default_content_setting,
                   observers, prefs_cache, allowed_changed, denied_changed,
                   last_decision, undelivered, recorded_allowed,
                   applied_allowed, last_persist>>

\* The infobar offers its buttons until one of them is pressed.
ButtonsEnabled(delegate) == ~delegate.action_taken

Accept(delegate) ==
    /\ delegate \in infobars
    /\ ButtonsEnabled(delegate)
    /\ GrantPermission(delegate.origin)
    /\ infobars' = (infobars \ {delegate}) \cup
                       {[delegate EXCEPT !.action_taken = TRUE]}
    /\ UNCHANGED ops

Cancel(delegate) ==
    /\ delegate \in infobars
    /\ ButtonsEnabled(delegate)
    /\ DenyPermission(delegate.origin)
    /\ infobars' = (infobars \ {delegate}) \cup
                       {[delegate EXCEPT !.action_taken = TRUE]}
    /\ UNCHANGED ops

\* Variant: InfoBarClosed posts nothing.
InfoBarClosedTasks_None(delegate) == <<>>

\* The tasks InfoBarClosed posts.
InfoBarClosedTasks(delegate) ==
    <<CallbackTask(delegate.process_id, delegate.route_id,
                   delegate.callback_context)>>

\* Variant: the delegate outlives InfoBarClosed.
InfoBarClosedLeaves_Kept(delegate) == infobars

\* The delegates left when InfoBarClosed returns (it deletes itself).
InfoBarClosedLeaves(delegate) == infobars \ {delegate}

InfoBarClosed(delegate) ==
    /\ delegate \in infobars
    /\ io_tasks' = io_tasks \o InfoBarClosedTasks(delegate)
    /\ posted' = posted (+)
           BagOfAll(LAMBDA t : t,
                    [t \in Range(InfoBarClosedTasks(delegate)) |->
                        Cardinality({i \in DOMAIN InfoBarClosedTasks(delegate) :
                                        InfoBarClosedTasks(delegate)[i] = t})])
    /\ infobars' = InfoBarClosedLeaves(delegate)
    /\ UNCHANGED <<params, contents, updates_due, misapplied>>
    /\ UNCHANGED <<otr, allowed_sites, denied_sites, default_content_setting,
                   observers, prefs_cache, allowed_changed, denied_changed,
                   ops, next_context, requests, last_decision, undelivered,
                   recorded_allowed, applied_allowed, last_persist>>

\* ------------------------------------------------------------------ IO thread
\* The IO thread runs the oldest posted task.
RunTask(name) ==
    /\ io_tasks # <<>>
    /\ Head(io_tasks).task = name
    /\ io_tasks' = Tail(io_tasks)
    /\ undelivered' =
           [o \in Origins |->
               IF undelivered[o] > 0 THEN undelivered[o] - 1 ELSE 0]
    /\ UNCHANGED <<params, contents>>
    /\ UNCHANGED <<otr, allowed_sites, denied_sites, default_content_setting,
                   observers, infobars, allowed_changed, denied_changed, ops,
                   next_context, requests, posted, last_decision,
                   recorded_allowed, last_persist>>

RunCacheAllowedOrigin ==
    /\ RunTask("CacheAllowedOrigin")
    /\ prefs_cache' = CacheAllowedOrigin(prefs_cache, Head(io_tasks).origin)
    /\ applied_allowed' = applied_allowed \cup {Head(io_tasks).origin}
    /\ NoteUpdateApplied(Head(io_tasks))

RunCacheDeniedOrigin ==
    /\ RunTask("CacheDeniedOrigin")
    /\ prefs_cache' = CacheDeniedOrigin(prefs_cache, Head(io_tasks).origin)
    /\ NoteUpdateApplied(Head(io_tasks))
    /\ UNCHANGED applied_allowed

RunSetCacheAllowedOrigins ==
    /\ RunTask("SetCacheAllowedOrigins")
    /\ UNCHANGED <<updates_due, misapplied>>
    /\ prefs_cache' = SetCacheAllowedOrigins(prefs_cache, Head(io_tasks).origins)
    /\ applied_allowed' = applied_allowed \cup Range(Head(io_tasks).origins)

RunSetCacheDeniedOrigins ==
    /\ RunTask("SetCacheDeniedOrigins")
    /\ UNCHANGED <<updates_due, misapplied>>
    /\ prefs_cache' = SetCacheDeniedOrigins(prefs_cache, Head(io_tasks).origins)
    /\ UNCHANGED applied_allowed

RunSetCacheDefaultContentSetting ==
    /\ RunTask("SetCacheDefaultContentSetting")
    /\ UNCHANGED <<updates_due, misapplied>>
    /\ prefs_cache' =
           SetCacheDefaultContentSetting(prefs_cache, Head(io_tasks).setting)
    /\ UNCHANGED applied_allowed

\* NotificationPermissionCallbackTask::Run sends the renderer its message.
RunNotificationPermissionCallbackTask ==
    /\ RunTask("NotificationPermissionCallbackTask")
    /\ UNCHANGED <<updates_due, misapplied>>
    /\ UNCHANGED <<prefs_cache, applied_allowed>>

\* --------------------------------------------------------------- next state
Next ==
    \/ \E origin \in Origins : CallGrantPermission(origin)
    \/ \E origin \in Origins : CallDenyPermission(origin)
    \/ \E origin \in Origins : ResetAllowedOrigin(origin)
    \/ \E origin \in Origins : ResetBlockedOrigin(origin)
    \/ ResetAllOrigins
    \/ \E setting \in ContentSettings : SetDefaultContentSetting(setting)
    \/ \E origin \in Origins, view \in RenderViews :
          RequestPermission(origin, view.process_id, view.route_id,
                            next_context, view.tab)
    \/ \E delegate \in infobars : Accept(delegate)
    \/ \E delegate \in infobars : Cancel(delegate)
    \/ \E delegate \in infobars : InfoBarClosed(delegate)
    \/ RunCacheAllowedOrigin
    \/ RunCacheDeniedOrigin
    \/ RunSetCacheAllowedOrigins
    \/ RunSetCacheDeniedOrigins
    \/ RunSetCacheDefaultContentSetting
    \/ RunNotificationPermissionCallbackTask

Spec == Init /\ [][Next]_vars

\* --------------------------------------------------- text notifications
\* What a renderer can send in ViewHostMsg_ShowNotification_Params.
TextDirections == {"Default", "LeftToRight", "RightToLeft"}
IconUrls == {"", "icon", "http://a/icon.png"}
Texts == {"", "t", "<b>"}

ShowNotificationParams ==
    [is_html : BOOLEAN, icon_url : IconUrls, title : Texts, body : Texts,
     direction : TextDirections]

\* GURL::is_valid(): an absolute URL with a scheme.
IsValid(url) == url = "http://a/icon.png"

\* EscapeForHTML: the markup characters become entities.
EscapeForHTML(text) == IF text = "<b>" THEN "&lt;b&gt;" ELSE text

\* "icon float position"
IconFloat(dir) == IF dir = "RightToLeft" THEN "right" ELSE "left"

\* Variant: the text direction is always left to right.
TextDirection_Ltr(dir) == "ltr"

\* "body text direction"
TextDirection(dir) == IF dir = "RightToLeft" THEN "rtl" ELSE "ltr"

\* CreateDataUrl: the template resource and the substitutions made in it;
\* the data: URL returned is that text, escaped.
CreateDataUrl(icon_url, title, body, dir) ==
    LET line == IF title = "" THEN body ELSE title
        line_name == IF title = "" THEN "description" ELSE "title"
        chosen ==
            IF IsValid(icon_url)
            THEN [resource |-> "IDR_NOTIFICATION_ICON_HTML",
                  subst |-> <<icon_url, EscapeForHTML(title),
                              EscapeForHTML(body), IconFloat(dir)>>]
            ELSE IF title = "" \/ body = ""
            THEN [resource |-> "IDR_NOTIFICATION_1LINE_HTML",
                  subst |-> <<EscapeForHTML(line_name), EscapeForHTML(line)>>]
            ELSE [resource |-> "IDR_NOTIFICATION_2LINE_HTML",
                  subst |-> <<EscapeForHTML(title), EscapeForHTML(body)>>]
    IN  [resource |-> chosen.resource,
         subst |-> Append(chosen.subst, TextDirection(dir))]

\* ShowDesktopNotification: an HTML notification shows its contents_url, a
\* text notification the data: URL made of its fields.
ShowDesktopNotification ==
    /\ contents = NoContents
    /\ contents' =
           IF params.is_html
           THEN [resource |-> "contents_url", subst |-> <<>>]
           ELSE CreateDataUrl(params.icon_url, params.title, params.body,
                              params.direction)
    /\ UNCHANGED <<otr, allowed_sites, denied_sites, default_content_setting,
                   observers, prefs_cache, io_tasks, infobars, allowed_changed,
                   denied_changed, ops, next_context, requests, posted,
                   last_decision, undelivered, recorded_allowed,
                   applied_allowed, last_persist, params, updates_due,
                   misapplied>>

\* A service with nothing stored, asked to show one notification.
InitShowNotification ==
    /\ Constructed
    /\ ~otr
    /\ allowed_sites = <<>>
    /\ denied_sites = <<>>
    /\ default_content_setting = "DEFAULT"
    /\ params \in ShowNotificationParams
    /\ contents = NoContents

NextShowNotification == ShowDesktopNotification

SpecShowNotification == InitShowNotification /\ [][NextShowNotification]_vars

\* ===================================================================== claims
\* The callback task that answers the request an infobar delegate stands for.
DelegateCallback(delegate) ==
    CallbackTask(delegate.process_id, delegate.route_id,
                 delegate.callback_context)

\* C1: after any sequence of GrantPermission, DenyPermission,
\* ResetAllowedOrigin, ResetBlockedOrigin and ResetAllOrigins calls from
\* disjoint lists, every origin is in at most one of the persisted allowed and
\* denied lists, and at most once in that list.
C1_OriginInAtMostOneList ==
    /\ Range(allowed_sites) \cap Range(denied_sites) = {}
    /\ NoDuplicates(allowed_sites)
    /\ NoDuplicates(denied_sites)

\* A decision has just moved an origin from one list to the other.
C1_Witness ==
    /\ ~otr
    /\ last_persist.persist
    /\ allowed_changed
    /\ denied_changed
    /\ ops = MaxOps

\* C2: every RequestPermission call leads to a completion notice for the
\* (process_id, route_id, callback_context) it was called with.  The notice is
\* posted either by RequestPermission itself or by InfoBarClosed of the
\* request's infobar, so at every moment a request must have had its notice
\* posted or still have its infobar open; a request with neither is never
\* answered.
C2_EveryRequestIsAnswered ==
    \A request \in requests :
        \/ CopiesIn(request, posted) >= 1
        \/ \E delegate \in infobars : DelegateCallback(delegate) = request

\* C3: at most one completion notice is ever posted for a request id, however
\* the request's prompt ends (Accept, Cancel, closed).
C3_AtMostOneNoticePerRequest ==
    \A context \in 1..MaxOps :
        LET notices == {t \in BagToSet(posted) : t.request_id = context}
        IN  /\ Cardinality(notices) <= 1
            /\ \A t \in notices : CopiesIn(t, posted) = 1

\* Two prompts were shown, a button was pressed, both infobars are closed.
C3_Witness ==
    /\ ops = MaxOps
    /\ next_context = MaxOps + 1
    /\ infobars = {}
    /\ last_persist.persist
    /\ \A request \in requests : CopiesIn(request, posted) = 1

\* C4: on a profile that is not off the record, once GrantPermission(O) has
\* been called and every cache update posted up to and by that call has run,
\* with no later change of O's lists (a decision on O, or a reset that removes
\* O), the cache answers ALLOW for O; after DenyPermission(O), BLOCK.
C4_DecisionReachesCache ==
    \A o \in Origins :
        (~otr /\ undelivered[o] = 0) =>
            /\ last_decision[o] = "grant" =>
                   HasPermission(prefs_cache, o) = "ALLOW"
            /\ last_decision[o] = "deny" =>
                   HasPermission(prefs_cache, o) = "BLOCK"

\* A grant moved an origin out of the denied list and its update has run.
C4_Witness ==
    /\ ~otr
    /\ last_persist.persist
    /\ last_persist.is_allowed
    /\ denied_changed
    /\ last_decision[last_persist.origin] = "grant"
    /\ undelivered[last_persist.origin] = 0
    /\ io_tasks = <<>>

\* C5, as amended: while the cache's default is not ALLOW, the cache answers
\* ALLOW for O only after an update naming O as allowed has been applied to it
\* (the load at construction, a full allowed list holding O, a single allow of
\* O); and, on a profile that is not off the record, only after the allowed
\* pref has held O.
C5_AllowOnlyAfterUpdate ==
    \A o \in Origins :
        (/\ prefs_cache.default_content_setting # "ALLOW"
         /\ HasPermission(prefs_cache, o) = "ALLOW") =>
            /\ o \in applied_allowed
            /\ ~otr => o \in recorded_allowed

\* C5 as stated: on every profile the cache shows ALLOW for O only after the
\* store has recorded the allow decision.
C5_AllowOnlyAfterStoreRecorded ==
    \A o \in Origins :
        (/\ prefs_cache.default_content_setting # "ALLOW"
         /\ HasPermission(prefs_cache, o) = "ALLOW") =>
            /\ o \in applied_allowed
            /\ o \in recorded_allowed

\* The cache answers ALLOW for an origin granted in this run.
C5_Witness ==
    \E o \in Origins :
        /\ ~otr
        /\ prefs_cache.default_content_setting # "ALLOW"
        /\ last_decision[o] = "grant"
        /\ HasPermission(prefs_cache, o) = "ALLOW"
        /\ allowed_changed

\* C6: PersistPermissionChange(O, b) right after PersistPermissionChange(O, b)
\* leaves both persisted lists as the first call left them and computes
\* allowed_changed = false and denied_changed = false.
C6_RepeatedDecisionIsIdempotent ==
    [][\A o \in Origins, b \in BOOLEAN :
          (/\ last_persist.persist
           /\ last_persist.origin = o
           /\ last_persist.is_allowed = b
           /\ IF b THEN GrantPermission(o) ELSE DenyPermission(o)) =>
              /\ allowed_sites' = allowed_sites
              /\ denied_sites' = denied_sites
              /\ ~allowed_changed'
              /\ ~denied_changed']_vars

\* The same decision has been written twice in a row.
C6_Witness ==
    /\ ~otr
    /\ last_persist.persist
    /\ last_persist.repeated

\* C7: closing a prompt whose buttons were not pressed leaves the persisted
\* lists and default, and the cache, as they were, posts no cache update,
\* leaves every origin's resolution as it was (ASK stays ASK), and posts
\* exactly one completion notice, the request's own.
C7_DismissChangesNothing ==
    [][\A delegate \in infobars :
          (InfoBarClosed(delegate) /\ ~delegate.action_taken) =>
              /\ UNCHANGED <<allowed_sites, denied_sites,
                             default_content_setting, prefs_cache>>
              /\ io_tasks' = Append(io_tasks, DelegateCallback(delegate))
              /\ \A o \in Origins : GetContentSetting(o)' = GetContentSetting(o)
              /\ CopiesIn(DelegateCallback(delegate), posted) = 0
              /\ CopiesIn(DelegateCallback(delegate), posted') = 1
              /\ \A t \in BagToSet(posted') :
                    t # DelegateCallback(delegate) =>
                        CopiesIn(t, posted') = CopiesIn(t, posted)]_vars

\* One request was made, it showed a prompt, and the prompt was dismissed:
\* nothing was ever written and the origin still resolves to ASK.
C7_Witness ==
    /\ ops = 1
    /\ ~otr
    /\ next_context = 2
    /\ infobars = {}
    /\ ~last_persist.persist
    /\ default_content_setting = "ASK"
    /\ allowed_sites = <<>>
    /\ denied_sites = <<>>
    /\ \A request \in requests : CopiesIn(request, posted) = 1
    /\ \A o \in Origins : GetContentSetting(o) = "ASK"

\* C8: on an off-the-record profile, Accept on origin X does not write the
\* persisted lists (X stays out of them), and once the update it posted has
\* run, the cache answers ALLOW for X.
C8_OffTheRecordAccept ==
    /\ [][\A delegate \in infobars :
             (otr /\ Accept(delegate)) =>
                 UNCHANGED <<allowed_sites, denied_sites>>]_vars
    /\ [](\A o \in Origins :
             (otr /\ last_decision[o] = "grant" /\ undelivered[o] = 0) =>
                 HasPermission(prefs_cache, o) = "ALLOW")

\* Off the record, one prompt was accepted: the cache allows the origin and
\* neither persisted list holds it.
C8_Witness ==
    \E delegate \in infobars :
        /\ otr
        /\ ops = 1
        /\ delegate.action_taken
        /\ last_decision[delegate.origin] = "grant"
        /\ undelivered[delegate.origin] = 0
        /\ HasPermission(prefs_cache, delegate.origin) = "ALLOW"
        /\ delegate.origin \notin Range(allowed_sites) \cup Range(denied_sites)

\* C9: on an off-the-record profile no operation changes the persisted allowed
\* list, denied list or default policy: they stay at their initial values.
C9_OffTheRecordNeverWrites ==
    [][otr => UNCHANGED <<allowed_sites, denied_sites,
                          default_content_setting>>]_vars

\* C10: RequestPermission shows the prompt if and only if the origin resolves
\* to ASK from the store; otherwise it shows none and posts the completion
\* notice within the call.
C10_PromptIffAsk ==
    [][\A o \in Origins, view \in RenderViews :
          RequestPermission(o, view.process_id, view.route_id, next_context,
                            view.tab) =>
              /\ (infobars' # infobars) <=> (GetContentSetting(o) = "ASK")
              /\ GetContentSetting(o) # "ASK" =>
                     io_tasks' =
                         Append(io_tasks,
                                CallbackTask(view.process_id, view.route_id,
                                             next_context))]_vars

\* C11: a cache filled by InitPrefs from the prefs as they stand answers, for
\* every origin, what GetContentSetting resolves from those prefs; on a
\* profile that is not off the record that is ALLOW for an origin of the
\* allowed list, BLOCK for one of the denied list, and otherwise the default
\* setting with the unset value read as ASK.
C11_CacheMatchesStoreAtConstruction ==
    LET cache == InitPrefs(otr, allowed_sites, denied_sites,
                           default_content_setting)
    IN  /\ ops = 0 => prefs_cache = cache
        /\ \A o \in Origins :
              /\ HasPermission(cache, o) = GetContentSetting(o)
              /\ ~otr =>
                     HasPermission(cache, o) =
                         IF o \in Range(allowed_sites) THEN "ALLOW"
                         ELSE IF o \in Range(denied_sites) THEN "BLOCK"
                         ELSE IF default_content_setting = "DEFAULT" THEN "ASK"
                         ELSE default_content_setting

\* Just constructed, not off the record: one origin is in a list, another is
\* in neither, and the default setting is the unset value.
C11_Witness ==
    /\ ops = 0
    /\ ~otr
    /\ default_content_setting = "DEFAULT"
    /\ Range(allowed_sites) \cup Range(denied_sites) # {}
    /\ Origins \ (Range(allowed_sites) \cup Range(denied_sites)) # {}
    /\ \A o \in Origins :
          HasPermission(prefs_cache, o) = GetContentSetting(o)

\* The default the cache answers with: its default setting, unset read as ASK.
CacheDefaultSetting ==
    IF prefs_cache.default_content_setting = "DEFAULT" THEN "ASK"
    ELSE prefs_cache.default_content_setting

\* A SetCacheDefaultContentSetting task is still to run.
DefaultUpdatePending ==
    \E i \in DOMAIN io_tasks :
        io_tasks[i].task = "SetCacheDefaultContentSetting"

\* C12: on a profile that is not off the record, once a reset has removed O
\* from the list that held it (and no decision on O followed), the store
\* resolves O to the default setting; and once the cache updates posted up to
\* and by that reset have run, O is in neither cache set, so the cache answers
\* its default for O, which is the store's default unless an update of the
\* default is still queued.
C12_ResetReturnsToDefault ==
    \A o \in Origins :
        (~otr /\ last_decision[o] = "reset") =>
            /\ GetContentSetting(o) = GetDefaultContentSetting
            /\ undelivered[o] = 0 =>
                   /\ o \notin prefs_cache.allowed_origins
                   /\ o \notin prefs_cache.denied_origins
                   /\ HasPermission(prefs_cache, o) = CacheDefaultSetting
                   /\ ~DefaultUpdatePending =>
                          HasPermission(prefs_cache, o) =
                              GetDefaultContentSetting

\* ResetAllowedOrigin or ResetBlockedOrigin removed one origin and left the
\* other, untouched since construction, in its list; the update has run and
\* store and cache both answer the default, BLOCK, for the origin removed.
C12_Witness ==
    \E o, other \in Origins :
        /\ ~otr
        /\ last_decision[o] = "reset"
        /\ last_decision[other] = "none"
        /\ other \in Range(allowed_sites) \cup Range(denied_sites)
        /\ undelivered[o] = 0
        /\ io_tasks = <<>>
        /\ default_content_setting = "BLOCK"
        /\ GetContentSetting(o) = "BLOCK"
        /\ HasPermission(prefs_cache, o) = "BLOCK"

\* C13: ResetAllOrigins leaves both persisted lists empty and the persisted
\* default setting as it was.
C13_ResetAllOriginsFrame ==
    [][ResetAllOrigins =>
          /\ allowed_sites' = <<>>
          /\ denied_sites' = <<>>
          /\ default_content_setting' = default_content_setting]_vars

\* One call reset every origin: both lists, which held an origin each, are
\* empty and the default setting is still ALLOW.
C13_Witness ==
    /\ ~otr
    /\ ops = 1
    /\ \A o \in Origins : last_decision[o] = "reset"
    /\ recorded_allowed # {}
    /\ recorded_allowed # Origins
    /\ allowed_sites = <<>>
    /\ denied_sites = <<>>
    /\ default_content_setting = "ALLOW"

\* The cache after the IO thread has run one task.
ApplyTask(cache, t) ==
    CASE t.task = "CacheAllowedOrigin" -> CacheAllowedOrigin(cache, t.origin)
      [] t.task = "CacheDeniedOrigin" -> CacheDeniedOrigin(cache, t.origin)
      [] t.task = "SetCacheAllowedOrigins" ->
             SetCacheAllowedOrigins(cache, t.origins)
      [] t.task = "SetCacheDeniedOrigins" ->
             SetCacheDeniedOrigins(cache, t.origins)
      [] t.task = "SetCacheDefaultContentSetting" ->
             SetCacheDefaultContentSetting(cache, t.setting)
      [] OTHER -> cache

\* The cache after the IO thread has run all of `tasks`, oldest first.
RECURSIVE Drain(_, _)
Drain(cache, tasks) ==
    IF tasks = <<>> THEN cache
    ELSE Drain(ApplyTask(cache, Head(tasks)), Tail(tasks))

C15_DefaultSettingNormalised ==
    /\ [][\A p \in ContentSettings :
             SetDefaultContentSetting(p) =>
                 default_content_setting' =
                     IF p = "DEFAULT" THEN "ASK" ELSE p]_vars
    /\ [][default_content_setting' = "DEFAULT" =>
             /\ default_content_setting = "DEFAULT"
             /\ ~ \E p \in ContentSettings : SetDefaultContentSetting(p)]_vars
    /\ [](GetDefaultContentSetting \in {"ALLOW", "BLOCK", "ASK"})

\* The one call so far was SetDefaultContentSetting with ASK or the unset
\* value, over a stored ALLOW: ASK is stored and on its way to the cache,
\* which still holds ALLOW.
C15_Witness ==
    /\ ~otr
    /\ ops = 1
    /\ default_content_setting = "ASK"
    /\ GetDefaultContentSetting = "ASK"
    /\ prefs_cache.default_content_setting = "ALLOW"
    /\ io_tasks = <<[task |-> "SetCacheDefaultContentSetting",
                     setting |-> "ASK"]>>

\* The text notification shown, if one has been.
TextNotificationShown == contents # NoContents /\ ~params.is_html

\* C16, as amended: CreateDataUrl chooses the icon layout when the icon URL
\* is valid; otherwise the one-line layout when the title or the body (or
\* both) is empty; otherwise the two-line layout; and its last substitution
\* is rtl for a right-to-left direction and ltr for any other, whatever the
\* layout.
C16_LayoutOfDataUrl ==
    TextNotificationShown =>
        /\ contents.resource =
               IF IsValid(params.icon_url) THEN "IDR_NOTIFICATION_ICON_HTML"
               ELSE IF params.title = "" \/ params.body = ""
               THEN "IDR_NOTIFICATION_1LINE_HTML"
               ELSE "IDR_NOTIFICATION_2LINE_HTML"
        /\ contents.subst[Len(contents.subst)] =
               IF params.direction = "RightToLeft" THEN "rtl" ELSE "ltr"

\* C16 as stated: the one-line layout exactly when one of title and body is
\* non-empty and the other empty; two lines when both are empty.
C16_OneLineIffExactlyOneText ==
    TextNotificationShown =>
        /\ contents.resource =
               IF IsValid(params.icon_url) THEN "IDR_NOTIFICATION_ICON_HTML"
               ELSE IF (params.title = "") # (params.body = "")
               THEN "IDR_NOTIFICATION_1LINE_HTML"
               ELSE "IDR_NOTIFICATION_2LINE_HTML"
        /\ contents.subst[Len(contents.subst)] =
               IF params.direction = "RightToLeft" THEN "rtl" ELSE "ltr"

\* A right-to-left notification with no valid icon, no title and no body was
\* shown in the one-line layout.
C16_Witness ==
    /\ TextNotificationShown
    /\ ~IsValid(params.icon_url)
    /\ params.title = ""
    /\ params.body = ""
    /\ params.direction = "RightToLeft"
    /\ contents = [resource |-> "IDR_NOTIFICATION_1LINE_HTML",
                   subst |-> <<"description", "", "rtl">>]

\* C17: on a profile that is not off the record, a RequestPermission(O) made
\* after GrantPermission(O) or DenyPermission(O) returned and before the
\* cache update of that decision has run shows no prompt and posts the
\* completion notice within the call.
C17_RequestResolvesFromStore ==
    [][\A o \in Origins, view \in RenderViews :
          (/\ ~otr
           /\ last_decision[o] \in {"grant", "deny"}
           /\ undelivered[o] > 0
           /\ RequestPermission(o, view.process_id, view.route_id,
                                next_context, view.tab)) =>
              /\ infobars' = infobars
              /\ io_tasks' =
                     Append(io_tasks,
                            CallbackTask(view.process_id, view.route_id,
                                         next_context))]_vars

\* C18: a decision on O leaves every other origin in or out of each
\* persisted list as it was, leaves the stored default and the cache as they
\* were, and posts only updates that name O; and the single-origin update it
\* posts, whenever the IO thread runs it, leaves every other origin in or out
\* of each cache set as it was, and the cache's default as it was.
C18_DecisionLeavesOtherOrigins ==
    /\ [][Len(updates_due') > Len(updates_due) =>
             LET o == updates_due'[Len(updates_due')].origin IN
             /\ \A other \in Origins \ {o} :
                   /\ other \in Range(allowed_sites') <=>
                          other \in Range(allowed_sites)
                   /\ other \in Range(denied_sites') <=>
                          other \in Range(denied_sites)
             /\ default_content_setting' = default_content_setting
             /\ prefs_cache' = prefs_cache
             /\ \A i \in (Len(io_tasks) + 1)..Len(io_tasks') :
                   /\ io_tasks'[i].task \in
                          {"CacheAllowedOrigin", "CacheDeniedOrigin"}
                   /\ io_tasks'[i].origin = o]_vars
    /\ [][(/\ io_tasks # <<>>
            /\ io_tasks' = Tail(io_tasks)
            /\ Head(io_tasks).task \in
                   {"CacheAllowedOrigin", "CacheDeniedOrigin"}) =>
             /\ \A other \in Origins \ {Head(io_tasks).origin} :
                   /\ other \in prefs_cache'.allowed_origins <=>
                          other \in prefs_cache.allowed_origins
                   /\ other \in prefs_cache'.denied_origins <=>
                          other \in prefs_cache.denied_origins
             /\ prefs_cache'.default_content_setting =
                    prefs_cache.default_content_setting]_vars

\* One origin was allowed and then another denied: the first is still in the
\* allowed list, and, both updates having run, still allowed in the cache.
C18_Witness ==
    \E o, other \in Origins :
        /\ ~otr
        /\ o # other
        /\ last_decision[o] = "deny"
        /\ last_decision[other] = "grant"
        /\ last_persist.persist
        /\ last_persist.origin = o
        /\ denied_changed
        /\ ~allowed_changed
        /\ other \in Range(allowed_sites)
        /\ o \in Range(denied_sites)
        /\ io_tasks = <<>>
        /\ prefs_cache.allowed_origins = {other}
        /\ prefs_cache.denied_origins = {o}

\* The single-origin cache updates still queued, oldest first.
UpdatesQueued ==
    SelectSeq(io_tasks,
              LAMBDA t : t.task \in {"CacheAllowedOrigin", "CacheDeniedOrigin"})

\* C19: every GrantPermission or DenyPermission call makes one single-origin
\* update due; the cache is only ever given the oldest update due, which then
\* is due no longer; and the updates still due are exactly the single-origin
\* updates queued, in the order of the calls.  So each decision's update is
\* queued once, applied once, and in decision order.
C19_OneUpdatePerDecision ==
    /\ ~misapplied
    /\ updates_due = UpdatesQueued

\* A grant of one origin and then a deny of the other were made, and both
\* updates have reached the cache, none is due.
C19_Witness ==
    \E o, other \in Origins :
        /\ o # other
        /\ ops = MaxOps
        /\ last_decision[o] = "grant"
        /\ last_decision[other] = "deny"
        /\ last_persist.persist
        /\ last_persist.origin = other
        /\ updates_due = <<>>
        /\ io_tasks = <<>>
        /\ HasPermission(prefs_cache, o) = "ALLOW"
        /\ HasPermission(prefs_cache, other) = "BLOCK"

\* The tasks a step has added to the IO thread's queue.
NewTasks ==
    {io_tasks'[i] : i \in (Len(io_tasks) + 1)..Len(io_tasks')}

\* C20: on a profile that is not off the record, (1) between calls the
\* service is registered as observer of all three prefs, whatever decisions
\* were made; (2) a decision posts its single-origin update and nothing else,
\* so no full-list update; (3) any other step that changes a list or the
\* default setting posts the cache update that carries the new value.
C20_ObserverDetachedOnlyForDecision ==
    /\ [](~otr => observers = ObservedPrefs)
    /\ [][(~otr /\ Len(updates_due') > Len(updates_due)) =>
             io_tasks' =
                 Append(io_tasks, updates_due'[Len(updates_due')])]_vars
    /\ [][(~otr /\ Len(updates_due') <= Len(updates_due)) =>
             /\ allowed_sites' # allowed_sites =>
                    [task |-> "SetCacheAllowedOrigins",
                     origins |-> allowed_sites'] \in NewTasks
             /\ denied_sites' # denied_sites =>
                    [task |-> "SetCacheDeniedOrigins",
                     origins |-> denied_sites'] \in NewTasks
             /\ default_content_setting' # default_content_setting =>
                    [task |-> "SetCacheDefaultContentSetting",
                     setting |-> default_content_setting'] \in NewTasks]_vars

\* An origin was allowed and then reset: the queue holds the decision's
\* single-origin update and, behind it, the full allowed list the observer
\* posted for the reset.
C20_Witness ==
    /\ ~otr
    /\ ops = 2
    /\ Len(updates_due) = 1
    /\ allowed_changed
    /\ last_decision[updates_due[1].origin] = "reset"
    /\ observers = ObservedPrefs
    /\ io_tasks = <<updates_due[1],
                    [task |-> "SetCacheAllowedOrigins",
                     origins |-> allowed_sites]>>

\* C21: no origin is in both sets of the cache, in any state: not after any
\* decision's update, and not between the full allowed-list update and the
\* full denied-list update that one call posted.
C21_CacheSetsDisjoint ==
    prefs_cache.allowed_origins \cap prefs_cache.denied_origins = {}

\* ResetAllOrigins cleared an allowed and a denied origin; the cache has been
\* given the empty allowed list, the empty denied list is still queued.
C21_Witness ==
    /\ ~otr
    /\ ops = 1
    /\ \A o \in Origins : last_decision[o] = "reset"
    /\ recorded_allowed # {}
    /\ prefs_cache.allowed_origins = {}
    /\ prefs_cache.denied_origins # {}
    /\ io_tasks = <<[task |-> "SetCacheDeniedOrigins", origins |-> <<>>]>>

\* The RenderViews that belong to a tab.
ViewsWithTab == {view \in RenderViews : view.tab # "NULL"}

\* C22: off the record GetContentSetting resolves every origin to ASK,
\* whatever was stored and whatever was decided; and every RequestPermission
\* from a view with a tab opens an infobar for the request, with its buttons
\* enabled, and posts nothing.
C22_OffTheRecordAlwaysPrompts ==
    /\ [](otr => \A o \in Origins : GetContentSetting(o) = "ASK")
    /\ [][\A view \in ViewsWithTab :
             (/\ otr
              /\ CallbackTask(view.process_id, view.route_id, next_context)
                     \in requests' \ requests) =>
                 /\ io_tasks' = io_tasks
                 /\ \E o \in Origins :
                       infobars' = infobars \cup
                           {[origin |-> o, process_id |-> view.process_id,
                             route_id |-> view.route_id,
                             callback_context |-> next_context,
                             action_taken |-> FALSE]}]_vars

\* Off the record an origin was asked for and accepted, the cache allows it,
\* and a second request for the same origin has its prompt open.
C22_Witness ==
    \E first, second \in infobars :
        /\ otr
        /\ first.origin = second.origin
        /\ first.callback_context < second.callback_context
        /\ first.action_taken
        /\ ~second.action_taken
        /\ last_decision[first.origin] = "grant"
        /\ HasPermission(prefs_cache, first.origin) = "ALLOW"
        /\ GetContentSetting(first.origin) = "ASK"

====
